---- MODULE Spec2Model ----
(***************************************************************************)
(* A model of wolf_comm.wolf_client.WolfClient: the request pipeline      *)
(* (__request, __execute, __authorize_and_session) with its session and   *)
(* token state, and the pure parts of the public operations (the          *)
(* parameter mapper, the view flattener, the error classification of      *)
(* fetch_value).                                                           *)
(*                                                                         *)
(* A coroutine runs without interruption between two awaits, so one       *)
(* action is the code from the completion of one awaited call to the      *)
(* issue of the next one.  Every awaited collaborator (token_auth.token,  *)
(* create_session, update_session, client.request) either returns or     *)
(* raises.                                                                 *)
(***************************************************************************)
EXTENDS Integers, Sequences, FiniteSets, TLC

\* ------------------------------------------------------------------ bounds

\* The clock stops advancing here.
MaxTime == 90
\* Requests started on the client during one behaviour.
MaxReq == 2

\* The coroutines that may run __request on the one client instance.
Procs == {1, 2}
\* How far the clock may advance in one step (seconds).
Steps == {30}
\* The expires_in a token is issued with (seconds).
Lifetimes == {50, 200}
\* The status codes the portal answers with.
Statuses == {200, 401, 404, 500}
\* Response bodies: two JSON documents and one body that is not JSON.
Bodies == {"json_a", "json_b", "html"}

\* ------------------------------------------------------------- constants

\* None, for session_id, for last_session_refesh and for a missing dict key.
NoSession == 0
NoTime == -1
Absent == 0
\* The value of the Content-Type header fetch_value passes.
APPLICATION_JSON == 1
\* timedelta(seconds=60)
REFRESH_SECONDS == 60
UNAUTHORIZED == 401
SERVER_ERROR == 500

NoTokens == [present |-> FALSE, access_token |-> 0, expire_date |-> 0]

VARIABLES
    now,                  \* datetime.datetime.now()
    tokens,               \* self.tokens
    session_id,           \* self.session_id
    last_failed,          \* self.last_failed
    last_session_refesh,  \* self.last_session_refesh
    pc,                   \* per coroutine: the await it is suspended at
    kwargs,               \* per coroutine: the headers the caller passed
    headers,              \* per coroutine: the local variable headers
    resp1,                \* per coroutine: the first response
    resp2,                \* per coroutine: the response of the retry
    outcome,              \* per coroutine: what __request returned or raised
    log,                  \* per coroutine: the calls this request issued
    startTokens,          \* per coroutine: self.tokens as line 57 found them
    keepalives,           \* history: every update_session call of the client
    sessionTok,           \* history: the token self.session_id was opened with
    nReq, nTok, nSess,    \* history: requests started, tokens and sessions issued
    \* the pure operations, each applied to an input drawn by its Init
    views,                \* fetch_parameters: desc[MENU_ITEMS][0][TAB_VIEWS]
    flattened,            \* fetch_parameters: the list it returns
    origin,               \* history: the view each element of flattened is of
    descriptor, parent,   \* _map_parameter: its arguments
    mapped,               \* _map_parameter: the Parameter it returns
    res,                  \* fetch_value: what __request returned
    last_access,          \* self.last_access
    raised, returned,     \* fetch_value: what it raises, what it returns
    data,                 \* the json payload an operation built before __request
    new_params,           \* _map_view: the list it returns
    phase                 \* "input" before a pure operation ran, "output" after

reqVars == <<now, tokens, session_id, last_failed, last_session_refesh, pc,
             kwargs, headers, resp1, resp2, outcome, log, startTokens,
             keepalives, sessionTok, nReq, nTok, nSess>>
pureVars == <<views, flattened, origin, descriptor, parent, mapped, res,
              last_access, raised, returned, data, new_params, phase>>
vars == <<reqVars, pureVars>>

Least(S) == CHOOSE i \in S : \A j \in S : i <= j
Greatest(S) == CHOOSE i \in S : \A j \in S : j <= i

\* ------------------------------------------------------- the collaborators

\* helpers.bearer_header: the dict holding the Authorization header alone.
bearer_header(token) == {<<"Authorization", token>>}

\* {**d1, **d2}: the keys of both, d2's value where both have the key.
Merge(d1, d2) == d2 \cup {kv \in d1 : \A kv2 \in d2 : kv2[1] # kv[1]}

\* d.get(k)
Get(d, k) ==
    IF \E kv \in d : kv[1] = k THEN (CHOOSE kv \in d : kv[1] = k)[2] ELSE Absent

\* The headers a public operation passes: none, or fetch_value's Content-Type.
NoHeaders == [none |-> TRUE, dict |-> {}]
CallerHeaders ==
    {NoHeaders, [none |-> FALSE, dict |-> {<<"Content-Type", APPLICATION_JSON>>}]}

\* Tokens.is_expired()
is_expired(t) == t.expire_date < now

\* What a reader of self.tokens finds: None, expired tokens or valid ones.
TokenState(t) ==
    IF ~t.present THEN "none" ELSE IF is_expired(t) THEN "expired" ELSE "valid"

\* Tokens(access_token, expires_in), built when token_auth.token returns.
NewTokens(n, expires_in) ==
    [present |-> TRUE, access_token |-> n, expire_date |-> now + expires_in]

\* Response.json(): the document of a JSON body; other bodies do not parse.
IsJson(body) == body \in {"json_a", "json_b"}
Json(body) == CASE body = "json_a" -> "doc_a" [] body = "json_b" -> "doc_b"

\* What client.request gives back: a response of any status, or an exception
\* of the transport (never FetchFailed, which only this module defines).
Responses == [status : Statuses, body : Bodies]
NoResponse == [status |-> 0, body |-> "none", tokenExpired |-> FALSE]

NoOutcome == [kind |-> "none", val |-> "none"]
Return(v) == [kind |-> "return", val |-> v]
Raise(e) == [kind |-> "raise", val |-> e]

Event(e, tok, sid) ==
    [ev |-> e, tok |-> tok, sid |-> sid]

\* One update_session call in the history: when it was issued, the
\* last_session_refesh stored at that moment, and how it ended.
Keepalive == [at |-> now, refresh |-> last_session_refesh, result |-> "pending"]

\* ------------------------------------------- the conditions of __request

\* line 57, and the same without the expiry test
NeedsAuth_tokens_only(t) == ~t.present
\* the same under a guard that lets one coroutine authenticate at a time
NeedsAuth_unless_in_progress(t) ==
    /\ ~t.present \/ is_expired(t)
    /\ \A q \in Procs : pc[q] \notin {"token1", "session1"}
NeedsAuth(t) == ~t.present \/ is_expired(t)

\* line 67
RefreshDue(r, t) == r = NoTime \/ r <= t

\* line 69, and the same without the timedelta
NextRefresh_none(t) == t
NextRefresh(t) == t + REFRESH_SECONDS

\* line 73, and the same for every status from 400 on
ShouldRetry_unless_ok(status) == status # 200
ShouldRetry_any_error(status) == status >= 400
ShouldRetry(status) == status = UNAUTHORIZED \/ status = SERVER_ERROR

\* lines 62-65
FirstHeaders(kw, t) ==
    IF kw.none THEN bearer_header(t.access_token)
    ELSE Merge(bearer_header(t.access_token), kw.dict)

\* line 77
RetryHeaders(h, t) == Merge(bearer_header(t.access_token), h)

\* lines 80 and 86: the parsed body, or the decoder's exception
JsonOutcome(r) == IF IsJson(r.body) THEN Return(Json(r.body)) ELSE Raise("JSONDecodeError")

\* line 80, the retry's result, and the same read from the first response
RetryResult_first(first, second) == JsonOutcome(first)
RetryResult(first, second) == JsonOutcome(second)

\* lines 81-83: only a FetchFailed raised inside the try sets the flag
FlagAfterRetry(exc, flag) == IF exc = "FetchFailed" THEN TRUE ELSE flag

\* ------------------------------------------------------ _map_parameter

\* The bounds of the inputs of the pure operations.
MaxValueId == 2
MaxViews == 2
MaxParams == 3

\* constants.py: the unit strings the mapper knows.
CELSIUS_TEMPERATURE == "degC"
BAR == "bar"
PERCENTAGE == "%"
HOUR == "Std"

ValueIds == 1..MaxValueId
Names == {"x", "y"}
ParameterIds == {11, 12}
Units == {CELSIUS_TEMPERATURE, BAR, PERCENTAGE, HOUR, "kW"}
Tabs == {"A", "B"}
\* The listItems of a descriptor: dicts with the keys value and displayText.
ItemOff == [value |-> 0, display_text |-> "Off"]
ItemOn == [value |-> 1, display_text |-> "On"]
ItemLists == {<<>>, <<ItemOff>>, <<ItemOff, ItemOn>>, <<ItemOn, ItemOff>>}

\* A raw parameter descriptor: a dict that always has valueId, name and
\* parameterId and may have unit and listItems.
Descriptor(value_id, name, parameter_id) ==
    [value_id |-> value_id, name |-> name, parameter_id |-> parameter_id,
     has_unit |-> FALSE, unit |-> "", has_list_items |-> FALSE, list_items |-> <<>>]
WithUnit(d, u) == [d EXCEPT !.has_unit = TRUE, !.unit = u]
WithItems(d, items) == [d EXCEPT !.has_list_items = TRUE, !.list_items = items]
NoDescriptor == Descriptor(0, "", 0)

Descriptors ==
    LET bare == {Descriptor(v, n, q) : v \in ValueIds, n \in Names, q \in ParameterIds}
        unit == bare \cup {WithUnit(d, u) : d \in bare, u \in Units}
    IN  unit \cup {WithItems(d, items) : d \in unit, items \in ItemLists}

\* models.py: the Parameter classes store what they are constructed with.
Parameter(kind, value_id, name, parent_, parameter_id, items) ==
    [kind |-> kind, value_id |-> value_id, name |-> name, parent |-> parent_,
     parameter_id |-> parameter_id, items |-> items]
NoParameter == Parameter("none", 0, "", "", 0, <<>>)
SimpleParameter(value_id, name, parent_, parameter_id) ==
    Parameter("Simple", value_id, name, parent_, parameter_id, <<>>)
Temperature(value_id, name, parent_, parameter_id) ==
    Parameter("Temperature", value_id, name, parent_, parameter_id, <<>>)
Pressure(value_id, name, parent_, parameter_id) ==
    Parameter("Pressure", value_id, name, parent_, parameter_id, <<>>)
PercentageParameter(value_id, name, parent_, parameter_id) ==
    Parameter("Percentage", value_id, name, parent_, parameter_id, <<>>)
HoursParameter(value_id, name, parent_, parameter_id) ==
    Parameter("Hours", value_id, name, parent_, parameter_id, <<>>)
ListItemParameter(value_id, name, parent_, items, parameter_id) ==
    Parameter("ListItem", value_id, name, parent_, parameter_id, items)
ListItem(value, name) == [value |-> value, name |-> name]

\* line 178
MapItems(list_items) ==
    [i \in 1..Len(list_items) |->
        ListItem(list_items[i].value, list_items[i].display_text)]

\* a mapper that looks at the list items before the unit
map_parameter_items_first(parameter, parent_) ==
    IF parameter.has_list_items
    THEN ListItemParameter(parameter.value_id, parameter.name, parent_,
                           MapItems(parameter.list_items), parameter.parameter_id)
    ELSE IF parameter.has_unit /\ parameter.unit = BAR
    THEN Pressure(parameter.value_id, parameter.name, parent_, parameter.parameter_id)
    ELSE SimpleParameter(parameter.value_id, parameter.name, parent_,
                         parameter.parameter_id)

\* lines 163-180
map_parameter(parameter, parent_) ==
    LET value_id == parameter.value_id
        name == parameter.name
        parameter_id == parameter.parameter_id
    IN  IF parameter.has_unit
        THEN CASE parameter.unit = CELSIUS_TEMPERATURE ->
                      Temperature(value_id, name, parent_, parameter_id)
               [] parameter.unit = BAR ->
                      Pressure(value_id, name, parent_, parameter_id)
               [] parameter.unit = PERCENTAGE ->
                      PercentageParameter(value_id, name, parent_, parameter_id)
               [] parameter.unit = HOUR ->
                      HoursParameter(value_id, name, parent_, parameter_id)
               [] OTHER ->
                      SimpleParameter(value_id, name, parent_, parameter_id)
        ELSE IF parameter.has_list_items
        THEN ListItemParameter(value_id, name, parent_,
                               MapItems(parameter.list_items), parameter_id)
        ELSE SimpleParameter(value_id, name, parent_, parameter_id)

\* --------------------------------------------- _map_view, fetch_parameters

\* A tab view: tabName, parameterDescriptors and, in the schema view, the
\* parameters of SVGHeatingSchemaConfigDevices[0], each with a valueId and
\* maybe a unit.
View(tab_name, parameter_descriptors) ==
    [tab_name |-> tab_name, parameter_descriptors |-> parameter_descriptors,
     has_svg |-> FALSE, svg_parameters |-> <<>>]

\* lines 185-186: dict(...) keeps, of the entries of one valueId that carry
\* a unit, the last.
UnitEntries(view, value_id) ==
    {i \in 1..Len(view.svg_parameters) :
        /\ view.svg_parameters[i].has_unit
        /\ view.svg_parameters[i].value_id = value_id}
InUnits(view, value_id) == UnitEntries(view, value_id) # {}
UnitOf(view, value_id) ==
    view.svg_parameters[Greatest(UnitEntries(view, value_id))].unit

\* lines 190-191, and the same with the lookup left out
Enrich_not(view, param) == param
Enrich(view, param) ==
    IF InUnits(view, param.value_id)
    THEN WithUnit(param, UnitOf(view, param.value_id)) ELSE param

\* lines 183-195
map_view(view) ==
    IF view.has_svg
    THEN [i \in 1..Len(view.parameter_descriptors) |->
             map_parameter(Enrich(view, view.parameter_descriptors[i]), view.tab_name)]
    ELSE [i \in 1..Len(view.parameter_descriptors) |->
             map_parameter(view.parameter_descriptors[i], view.tab_name)]

InSeq(x, s) == \E i \in 1..Len(s) : s[i] = x

\* line 117, and the same left out
Reverse_not(s) == s
Reverse(s) == [i \in 1..Len(s) |-> s[Len(s) + 1 - i]]

\* line 123, and the same without the test of the name
Unseen_id_only(val, distinct_ids, distinct_names) ==
    ~InSeq(val.value_id, distinct_ids)
Unseen(val, distinct_ids, distinct_names) ==
    ~InSeq(val.value_id, distinct_ids) /\ ~InSeq(val.name, distinct_names)

\* lines 122-126: the inner loop from the i-th element of a sublist on.  acc
\* holds distinct_ids, distinct_names and flattened (and, as history, the
\* view each element of flattened is of); k is the view of the sublist.
RECURSIVE FlattenSublist(_, _, _, _)
FlattenSublist(sublist, i, k, acc) ==
    IF i > Len(sublist) THEN acc
    ELSE LET val == sublist[i]
         IN  IF Unseen(val, acc.distinct_ids, acc.distinct_names)
             THEN FlattenSublist(sublist, i + 1, k,
                      [distinct_ids |-> Append(acc.distinct_ids, val.value_id),
                       distinct_names |-> Append(acc.distinct_names, val.name),
                       flattened |-> Append(acc.flattened, val),
                       origin |-> Append(acc.origin, k)])
             ELSE FlattenSublist(sublist, i + 1, k, acc)

\* lines 120-126: the outer loop from the j-th sublist on; distinct_names is
\* emptied at every sublist (line 121), distinct_ids is not.  n is the
\* number of views: the j-th sublist after the reversal is of view n + 1 - j.
RECURSIVE FlattenFrom(_, _, _, _)
FlattenFrom(result, j, n, acc) ==
    IF j > Len(result) THEN acc
    ELSE FlattenFrom(result, j + 1, n,
             FlattenSublist(result[j], 1, n + 1 - j,
                            [acc EXCEPT !.distinct_names = <<>>]))

\* lines 114-127, and the same with every sublist reversed as well
Flatten_sublists_reversed(tab_views) ==
    LET result == [i \in 1..Len(tab_views) |-> Reverse(map_view(tab_views[i]))]
    IN  FlattenFrom(Reverse(result), 1, Len(tab_views),
                    [distinct_ids |-> <<>>, distinct_names |-> <<>>,
                     flattened |-> <<>>, origin |-> <<>>])
Flatten(tab_views) ==
    LET result == [i \in 1..Len(tab_views) |-> map_view(tab_views[i])]
    IN  FlattenFrom(Reverse(result), 1, Len(tab_views),
                    [distinct_ids |-> <<>>, distinct_names |-> <<>>,
                     flattened |-> <<>>, origin |-> <<>>])

\* ---------------------------------------------------------- fetch_value

\* constants.py: the errorMessage of a failed parameter read.
ERROR_READ_PARAMETER == "ERROR_READ_PARAMETER"

\* The JSON object __request returned: which of the keys errorCode,
\* errorType, errorMessage, lastAccess and values it has, and their values.
\* An entry of values has valueId and state and may have value.
ValueEntry(value_id, has_value) ==
    [value_id |-> value_id, has_value |-> has_value,
     value |-> IF has_value THEN "v" ELSE "", state |-> "ok"]
ValueLists ==
    {<<>>, <<ValueEntry(1, TRUE)>>, <<ValueEntry(1, TRUE), ValueEntry(2, FALSE)>>,
     <<ValueEntry(2, FALSE), ValueEntry(1, TRUE)>>}
NoResult ==
    [has_errorCode |-> FALSE, has_errorType |-> FALSE, has_errorMessage |-> FALSE,
     errorMessage |-> "", has_lastAccess |-> FALSE, lastAccess |-> "",
     has_values |-> FALSE, values |-> <<>>]
Results ==
    {[has_errorCode |-> c, has_errorType |-> t, has_errorMessage |-> m[1],
      errorMessage |-> m[2], has_lastAccess |-> a[1], lastAccess |-> a[2],
      has_values |-> v[1], values |-> v[2]] :
        c \in BOOLEAN, t \in BOOLEAN,
        m \in {<<FALSE, "">>, <<TRUE, ERROR_READ_PARAMETER>>, <<TRUE, "other">>},
        a \in {<<FALSE, "">>, <<TRUE, "t1">>, <<TRUE, "t2">>},
        v \in {<<FALSE, <<>> >>} \cup {<<TRUE, vs>> : vs \in ValueLists}}

\* line 154, and the same without the test of errorType
IsError_code_only(r) == r.has_errorCode
IsError(r) == r.has_errorCode \/ r.has_errorType

\* line 155
IsReadError(r) == r.has_errorMessage /\ r.errorMessage = ERROR_READ_PARAMETER

\* lines 154-160: the exception fetch_value raises on res, or "none"
RaisedOn(r) ==
    IF IsError(r) THEN (IF IsReadError(r) THEN "ParameterReadError" ELSE "FetchFailed")
    ELSE IF ~r.has_lastAccess \/ ~r.has_values THEN "KeyError"
    ELSE "none"

\* self.last_access after lines 154-160, la being its value before: line
\* 159 is reached when line 154 finds no error key, and stores the lastAccess
\* of the response if it has one (if not, res[LAST_ACCESS] raises).  And the
\* same with the store moved before the test of line 154.
LastAccessAfter_stored_first(r, la) == IF r.has_lastAccess THEN r.lastAccess ELSE la
LastAccessAfter(r, la) ==
    IF ~IsError(r) /\ r.has_lastAccess THEN r.lastAccess ELSE la

\* models.py
Value(value_id, value, state) == [value_id |-> value_id, value |-> value, state |-> state]

\* line 160
ValuesOf(r) ==
    LET has(v) == v.has_value
        kept == SelectSeq(r.values, has)
    IN  [i \in 1..Len(kept) |-> Value(kept[i].value_id, kept[i].value, kept[i].state)]

\* ------------------------------------------------------ the request pipeline

Idle(p) == pc[p] = "idle"

\* line 92, up to its await: token_auth.token is called
CallToken(p, at, lg) ==
    /\ pc' = [pc EXCEPT ![p] = at]
    /\ log' = [log EXCEPT ![p] = Append(lg, Event("token", Absent, NoSession))]

\* lines 60-72, up to the first await: the headers are built, then either
\* update_session is called (with the stored token and session id) or, when
\* no keepalive is due, client.request is.  kw is kwargs, t and sid are
\* self.tokens and self.session_id as they are when line 60 is reached.
BuildAndSend(p, kw, t, sid, lg) ==
    LET h == FirstHeaders(kw, t)
    IN  /\ headers' = [headers EXCEPT ![p] = h]
        /\ IF RefreshDue(last_session_refesh, now)
           THEN /\ pc' = [pc EXCEPT ![p] = "update_session"]
                /\ log' = [log EXCEPT ![p] =
                             Append(lg, Event("keepalive", t.access_token, sid))]
                /\ keepalives' = Append(keepalives, Keepalive)
           ELSE /\ pc' = [pc EXCEPT ![p] = "execute1"]
                /\ log' = [log EXCEPT ![p] =
                             Append(lg, Event("http", Get(h, "Authorization"), sid))]
                /\ UNCHANGED keepalives

\* What __request would do with the keepalive of lines 67-69 moved before
\* the authentication check of line 57.
Enter_keepalive_first(p, kw) ==
    /\ Idle(p)
    /\ nReq < MaxReq
    /\ nReq' = nReq + 1
    /\ kwargs' = [kwargs EXCEPT ![p] = kw]
    /\ resp1' = [resp1 EXCEPT ![p] = NoResponse]
    /\ resp2' = [resp2 EXCEPT ![p] = NoResponse]
    /\ outcome' = [outcome EXCEPT ![p] = NoOutcome]
    /\ startTokens' = [startTokens EXCEPT ![p] = TokenState(tokens)]
    /\ IF NeedsAuth(tokens) /\ ~RefreshDue(last_session_refesh, now)
       THEN /\ CallToken(p, "token1", <<>>)
            /\ headers' = [headers EXCEPT ![p] = {}]
            /\ UNCHANGED keepalives
       ELSE BuildAndSend(p, kw, tokens, session_id, <<>>)
    /\ UNCHANGED <<now, tokens, session_id, last_failed, last_session_refesh,
                   sessionTok, nTok, nSess>>

\* __request is entered: lines 56-58 and, with valid tokens, lines 60-72.
Enter(p, kw) ==
    /\ Idle(p)
    /\ nReq < MaxReq
    /\ nReq' = nReq + 1
    /\ kwargs' = [kwargs EXCEPT ![p] = kw]
    /\ resp1' = [resp1 EXCEPT ![p] = NoResponse]
    /\ resp2' = [resp2 EXCEPT ![p] = NoResponse]
    /\ outcome' = [outcome EXCEPT ![p] = NoOutcome]
    /\ startTokens' = [startTokens EXCEPT ![p] = TokenState(tokens)]
    /\ IF NeedsAuth(tokens)
       THEN /\ CallToken(p, "token1", <<>>)
            /\ headers' = [headers EXCEPT ![p] = {}]
            /\ UNCHANGED keepalives
       ELSE BuildAndSend(p, kw, tokens, session_id, <<>>)
    /\ UNCHANGED <<now, tokens, session_id, last_failed, last_session_refesh,
                   sessionTok, nTok, nSess>>

\* One request after another: __request is entered while no other runs.
\* Which coroutine runs it makes no difference, so it is always the first.
Start ==
    /\ \A q \in Procs : Idle(q)
    /\ \E kw \in CallerHeaders : Enter(1, kw)
    /\ UNCHANGED pureVars

\* What a request would do that caught the exception of token_auth.token
\* and called it again.
TokenFails_called_again(p) ==
    /\ pc[p] \in {"token1", "token2"}
    /\ log' = [log EXCEPT ![p] = Append(@, Event("token", Absent, NoSession))]
    /\ UNCHANGED <<now, tokens, session_id, last_failed, last_session_refesh, pc,
                   kwargs, headers, resp1, resp2, outcome, startTokens, keepalives,
                   sessionTok, nReq, nTok, nSess>>
    /\ UNCHANGED pureVars

\* token_auth.token raises: the exception leaves __authorize_and_session and
\* __request (no handler: the try of line 78 covers lines 79-80 alone).
TokenFails(p) ==
    /\ pc[p] \in {"token1", "token2"}
    /\ pc' = [pc EXCEPT ![p] = "done"]
    /\ outcome' = [outcome EXCEPT ![p] = Raise("AuthError")]
    /\ UNCHANGED <<now, tokens, session_id, last_failed, last_session_refesh,
                   kwargs, headers, resp1, resp2, log, startTokens, keepalives,
                   sessionTok, nReq, nTok, nSess>>
    /\ UNCHANGED pureVars

\* token_auth.token returns: line 92 stores the tokens, line 93 calls
\* create_session with the access token just stored.
TokenReturns(p) ==
    /\ pc[p] \in {"token1", "token2"}
    /\ \E life \in Lifetimes :
         tokens' = NewTokens(nTok + 1, life)
    /\ nTok' = nTok + 1
    /\ pc' = [pc EXCEPT ![p] = IF pc[p] = "token1" THEN "session1" ELSE "session2"]
    /\ log' = [log EXCEPT ![p] = Append(@, Event("session", nTok + 1, NoSession))]
    /\ UNCHANGED <<now, session_id, last_failed, last_session_refesh, kwargs,
                   headers, resp1, resp2, outcome, startTokens, keepalives,
                   sessionTok, nReq, nSess>>
    /\ UNCHANGED pureVars

\* create_session raises: self.tokens keeps the new tokens, self.session_id
\* its old value.
SessionFails(p) ==
    /\ pc[p] \in {"session1", "session2"}
    /\ pc' = [pc EXCEPT ![p] = "done"]
    /\ outcome' = [outcome EXCEPT ![p] = Raise("AuthError")]
    /\ UNCHANGED <<now, tokens, session_id, last_failed, last_session_refesh,
                   kwargs, headers, resp1, resp2, log, startTokens, keepalives,
                   sessionTok, nReq, nTok, nSess>>
    /\ UNCHANGED pureVars

\* The issue of client.request on the retry path: lines 77-79.
Retry(p, t, sid) ==
    LET h == RetryHeaders(headers[p], t)
    IN  /\ headers' = [headers EXCEPT ![p] = h]
        /\ pc' = [pc EXCEPT ![p] = "execute2"]
        /\ log' = [log EXCEPT ![p] =
                     Append(@, Event("http", Get(h, "Authorization"), sid))]
        /\ UNCHANGED keepalives

\* create_session returns: line 93 stores the session id; then, of the first
\* authentication, lines 60-72, and of the forced one, lines 77-79.
SessionReturns(p) ==
    /\ pc[p] \in {"session1", "session2"}
    /\ session_id' = nSess + 1
    /\ nSess' = nSess + 1
    /\ sessionTok' = log[p][Len(log[p])].tok
    /\ IF pc[p] = "session1"
       THEN BuildAndSend(p, kwargs[p], tokens, nSess + 1, log[p])
       ELSE Retry(p, tokens, nSess + 1)
    /\ UNCHANGED <<now, tokens, last_failed, last_session_refesh, kwargs, resp1,
                   resp2, outcome, startTokens, nReq, nTok>>
    /\ UNCHANGED pureVars

MarkLast(ks, r) == [ks EXCEPT ![Len(ks)] = [@ EXCEPT !.result = r]]

\* update_session raises: line 69 is not reached.
KeepaliveFails(p) ==
    /\ pc[p] = "update_session"
    /\ pc' = [pc EXCEPT ![p] = "done"]
    /\ outcome' = [outcome EXCEPT ![p] = Raise("TransportError")]
    /\ keepalives' = MarkLast(keepalives, "raised")
    /\ UNCHANGED <<now, tokens, session_id, last_failed, last_session_refesh,
                   kwargs, headers, resp1, resp2, log, startTokens,
                   sessionTok, nReq, nTok, nSess>>
    /\ UNCHANGED pureVars

\* update_session returns: line 69, then line 72 calls client.request.
KeepaliveReturns(p) ==
    /\ pc[p] = "update_session"
    /\ last_session_refesh' = NextRefresh(now)
    /\ keepalives' = MarkLast(keepalives, "returned")
    /\ pc' = [pc EXCEPT ![p] = "execute1"]
    /\ log' = [log EXCEPT ![p] =
                 Append(@, Event("http", Get(headers[p], "Authorization"), session_id))]
    /\ UNCHANGED <<now, tokens, session_id, last_failed, kwargs, headers, resp1,
                   resp2, outcome, startTokens, sessionTok, nReq, nTok, nSess>>
    /\ UNCHANGED pureVars

\* client.request raises (line 72 or line 79).  The handler of line 81
\* catches FetchFailed alone, so any other exception passes it untouched.
ExecuteFails(p) ==
    /\ pc[p] \in {"execute1", "execute2"}
    /\ \E exc \in {"TransportError"} :
         /\ outcome' = [outcome EXCEPT ![p] = Raise(exc)]
         /\ last_failed' = IF pc[p] = "execute2"
                           THEN FlagAfterRetry(exc, last_failed) ELSE last_failed
    /\ pc' = [pc EXCEPT ![p] = "done"]
    /\ UNCHANGED <<now, tokens, session_id, last_session_refesh, kwargs, headers,
                   resp1, resp2, log, startTokens, keepalives, sessionTok,
                   nReq, nTok, nSess>>
    /\ UNCHANGED pureVars

\* The first client.request returns: lines 73-76 or lines 84-86.
FirstResponse(p) ==
    /\ pc[p] = "execute1"
    /\ \E r \in Responses :
         /\ resp1' = [resp1 EXCEPT ![p] =
                        [status |-> r.status, body |-> r.body,
                         tokenExpired |-> is_expired(tokens)]]
         /\ IF ShouldRetry(r.status)
            THEN /\ CallToken(p, "token2", log[p])
                 /\ UNCHANGED <<last_failed, outcome>>
            ELSE /\ last_failed' = FALSE
                 /\ outcome' = [outcome EXCEPT ![p] = JsonOutcome(r)]
                 /\ pc' = [pc EXCEPT ![p] = "done"]
                 /\ UNCHANGED log
    /\ UNCHANGED <<now, tokens, session_id, last_session_refesh, kwargs, headers,
                   resp2, startTokens, keepalives, sessionTok, nReq, nTok, nSess>>
    /\ UNCHANGED pureVars

\* The retried client.request returns: line 80, whatever the status.
RetryResponse(p) ==
    /\ pc[p] = "execute2"
    /\ \E r \in Responses :
         /\ resp2' = [resp2 EXCEPT ![p] =
                        [status |-> r.status, body |-> r.body,
                         tokenExpired |-> is_expired(tokens)]]
         /\ LET out == RetryResult(resp1[p], r)
            IN  /\ outcome' = [outcome EXCEPT ![p] = out]
                /\ last_failed' = IF out.kind = "raise"
                                  THEN FlagAfterRetry(out.val, last_failed)
                                  ELSE last_failed
    /\ pc' = [pc EXCEPT ![p] = "done"]
    /\ UNCHANGED <<now, tokens, session_id, last_session_refesh, kwargs, headers,
                   resp1, log, startTokens, keepalives, sessionTok, nReq, nTok, nSess>>
    /\ UNCHANGED pureVars

\* __request has returned or raised: the caller has the outcome and the
\* coroutine's locals are gone.
Finish(p) ==
    /\ pc[p] = "done"
    /\ pc' = [pc EXCEPT ![p] = "idle"]
    /\ kwargs' = [kwargs EXCEPT ![p] = NoHeaders]
    /\ headers' = [headers EXCEPT ![p] = {}]
    /\ resp1' = [resp1 EXCEPT ![p] = NoResponse]
    /\ resp2' = [resp2 EXCEPT ![p] = NoResponse]
    /\ outcome' = [outcome EXCEPT ![p] = NoOutcome]
    /\ log' = [log EXCEPT ![p] = <<>>]
    /\ startTokens' = [startTokens EXCEPT ![p] = "unread"]
    /\ UNCHANGED <<now, tokens, session_id, last_failed, last_session_refesh,
                   keepalives, sessionTok, nReq, nTok, nSess>>
    /\ UNCHANGED pureVars

\* The clock advances.
Tick ==
    /\ \E d \in Steps :
         /\ now + d <= MaxTime
         /\ now' = now + d
    /\ UNCHANGED <<tokens, session_id, last_failed, last_session_refesh, pc,
                   kwargs, headers, resp1, resp2, outcome, log, startTokens,
                   keepalives, sessionTok, nReq, nTok, nSess>>
    /\ UNCHANGED pureVars

\* The payload of an operation that has built none: the keys sessionId and
\* lastAccess as the operation read them from the client.
NoData == [session_id |-> NoSession, last_access |-> "None"]

\* The values the pure operations' variables keep under Spec.
PureIdle ==
    /\ views = <<>>
    /\ flattened = <<>>
    /\ origin = <<>>
    /\ descriptor = NoDescriptor
    /\ parent = "none"
    /\ mapped = NoParameter
    /\ res = NoResult
    /\ last_access = "None"
    /\ raised = "none"
    /\ returned = <<>>
    /\ data = NoData
    /\ new_params = <<>>
    /\ phase = "request"

\* lines 49-54
Init ==
    /\ now = 0
    /\ tokens = NoTokens
    /\ session_id = NoSession
    /\ last_failed = FALSE
    /\ last_session_refesh = NoTime
    /\ pc = [p \in Procs |-> "idle"]
    /\ kwargs = [p \in Procs |-> NoHeaders]
    /\ headers = [p \in Procs |-> {}]
    /\ resp1 = [p \in Procs |-> NoResponse]
    /\ resp2 = [p \in Procs |-> NoResponse]
    /\ outcome = [p \in Procs |-> NoOutcome]
    /\ log = [p \in Procs |-> <<>>]
    /\ startTokens = [p \in Procs |-> "unread"]
    /\ keepalives = <<>>
    /\ sessionTok = Absent
    /\ nReq = 0
    /\ nTok = 0
    /\ nSess = 0
    /\ PureIdle

Next ==
    \/ Tick
    \/ Start
    \/ \E p \in Procs :
         \/ TokenFails(p)
         \/ TokenReturns(p)
         \/ SessionFails(p)
         \/ SessionReturns(p)
         \/ KeepaliveFails(p)
         \/ KeepaliveReturns(p)
         \/ ExecuteFails(p)
         \/ FirstResponse(p)
         \/ RetryResponse(p)
         \/ Finish(p)

Spec == Init /\ [][Next]_vars

\* An operation that sends the session id in its body (lines 103, 131-133,
\* 139-148): the payload is built from self.session_id and self.last_access
\* as they are before __request is entered, and passed to it as json.
StartWithPayload ==
    /\ \A q \in Procs : Idle(q)
    /\ \E kw \in CallerHeaders : Enter(1, kw)
    /\ data' = [session_id |-> session_id, last_access |-> last_access]
    /\ UNCHANGED <<views, flattened, origin, descriptor, parent, mapped, res,
                   last_access, raised, returned, new_params, phase>>

NextWithPayload ==
    \/ Tick
    \/ StartWithPayload
    \/ \E p \in Procs :
         \/ TokenFails(p)
         \/ TokenReturns(p)
         \/ SessionFails(p)
         \/ SessionReturns(p)
         \/ KeepaliveFails(p)
         \/ KeepaliveReturns(p)
         \/ ExecuteFails(p)
         \/ FirstResponse(p)
         \/ RetryResponse(p)
         \/ Finish(p)

SpecWithPayload == Init /\ [][NextWithPayload]_vars

\* Two coroutines on the one client, each running __request once: it is
\* entered by a coroutine whatever the other is doing, and the coroutines
\* interleave at every await.  The window is short: the clock stands still
\* and the answer to a retried client.request is still awaited at its end.
StartConcurrent ==
    /\ \E p \in Procs : \E kw \in CallerHeaders : Enter(p, kw)
    /\ UNCHANGED pureVars

\* The client when the two coroutines start: fresh (lines 49-54), or as an
\* earlier request at time 0 left it (tokens of 50 seconds, session 1, the
\* next keepalive due at 60) with the clock at 60, the tokens expired.
InitConcurrent ==
    \/ Init
    \/ /\ now = REFRESH_SECONDS
       /\ tokens = [present |-> TRUE, access_token |-> 1, expire_date |-> 50]
       /\ session_id = 1
       /\ last_failed = FALSE
       /\ last_session_refesh = REFRESH_SECONDS
       /\ pc = [p \in Procs |-> "idle"]
       /\ kwargs = [p \in Procs |-> NoHeaders]
       /\ headers = [p \in Procs |-> {}]
       /\ resp1 = [p \in Procs |-> NoResponse]
       /\ resp2 = [p \in Procs |-> NoResponse]
       /\ outcome = [p \in Procs |-> NoOutcome]
       /\ log = [p \in Procs |-> <<>>]
       /\ startTokens = [p \in Procs |-> "unread"]
       /\ keepalives = <<>>
       /\ sessionTok = 1
       /\ nReq = 0
       /\ nTok = 1
       /\ nSess = 1
       /\ PureIdle

NextConcurrent ==
    \/ StartConcurrent
    \/ \E p \in Procs :
         \/ TokenFails(p)
         \/ TokenReturns(p)
         \/ SessionFails(p)
         \/ SessionReturns(p)
         \/ KeepaliveFails(p)
         \/ KeepaliveReturns(p)
         \/ ExecuteFails(p)
         \/ FirstResponse(p)

SpecConcurrent == InitConcurrent /\ [][NextConcurrent]_vars

\* ----------------------------------------- the pure operations, applied

\* The values the pipeline's variables keep while a pure operation is applied.
RequestIdle ==
    /\ now = 0
    /\ tokens = NoTokens
    /\ session_id = NoSession
    /\ last_failed = FALSE
    /\ last_session_refesh = NoTime
    /\ pc = [p \in Procs |-> "idle"]
    /\ kwargs = [p \in Procs |-> NoHeaders]
    /\ headers = [p \in Procs |-> {}]
    /\ resp1 = [p \in Procs |-> NoResponse]
    /\ resp2 = [p \in Procs |-> NoResponse]
    /\ outcome = [p \in Procs |-> NoOutcome]
    /\ log = [p \in Procs |-> <<>>]
    /\ startTokens = [p \in Procs |-> "unread"]
    /\ keepalives = <<>>
    /\ sessionTok = Absent
    /\ nReq = 0
    /\ nTok = 0
    /\ nSess = 0

\* _map_parameter on any descriptor and parent.
InitMap ==
    /\ RequestIdle
    /\ descriptor \in Descriptors
    /\ parent \in Tabs
    /\ mapped = NoParameter
    /\ phase = "input"
    /\ views = <<>> /\ flattened = <<>> /\ origin = <<>>
    /\ res = NoResult /\ last_access = "None" /\ raised = "none" /\ returned = <<>>
    /\ data = NoData /\ new_params = <<>>

MapParameter ==
    /\ phase = "input"
    /\ mapped' = map_parameter(descriptor, parent)
    /\ phase' = "output"
    /\ UNCHANGED <<views, flattened, origin, descriptor, parent, res, last_access,
                   raised, returned, data, new_params>>
    /\ UNCHANGED reqVars

SpecMap == InitMap /\ [][MapParameter]_vars

\* The entries of SVGHeatingSchemaConfigDevices[0]['parameters'] of the
\* mapped view: at most MaxEntries dicts with a valueId and maybe a unit.
MaxEntries == 2
SvgEntries ==
    {[value_id |-> v, has_unit |-> FALSE, unit |-> ""] : v \in ValueIds}
        \cup {[value_id |-> v, has_unit |-> TRUE, unit |-> u] :
                 v \in ValueIds, u \in {BAR, CELSIUS_TEMPERATURE}}
WithSvg(view, entries) ==
    [view EXCEPT !.has_svg = TRUE, !.svg_parameters = entries]

\* The descriptors of the mapped view: any unit or none, listItems or none.
ViewDescriptors ==
    {d \in Descriptors :
        /\ d.name = "x"
        /\ d.parameter_id = 11
        /\ d.list_items \in {<<>>, <<ItemOff>>}}

\* _map_view on a view of one descriptor, without the schema block or with
\* a block of at most MaxEntries entries.
InitView ==
    /\ RequestIdle
    /\ \E d \in ViewDescriptors :
         \/ views = <<View("A", <<d>>)>>
         \/ \E n \in 0..MaxEntries :
              \E entries \in [1..n -> SvgEntries] :
                 views = <<WithSvg(View("A", <<d>>), entries)>>
    /\ new_params = <<>>
    /\ phase = "input"
    /\ flattened = <<>> /\ origin = <<>>
    /\ descriptor = NoDescriptor /\ parent = "none" /\ mapped = NoParameter
    /\ res = NoResult /\ last_access = "None" /\ raised = "none" /\ returned = <<>>
    /\ data = NoData

MapView ==
    /\ phase = "input"
    /\ new_params' = map_view(views[1])
    /\ phase' = "output"
    /\ UNCHANGED <<views, flattened, origin, descriptor, parent, mapped, res,
                   last_access, raised, returned, data>>
    /\ UNCHANGED reqVars

SpecView == InitView /\ [][MapView]_vars

\* The descriptors the views of the flattener's inputs are made of.
FlatDescriptors == {Descriptor(v, n, v + 10) : v \in ValueIds, n \in Names}

\* The number of descriptors of the first i views, sizes[j] being that of
\* the j-th view.
RECURSIVE TotalParams(_, _)
TotalParams(sizes, i) == IF i = 0 THEN 0 ELSE TotalParams(sizes, i - 1) + sizes[i]

\* fetch_parameters on any list of at most MaxViews views that hold at most
\* MaxParams descriptors in all.
InitFlat ==
    /\ RequestIdle
    /\ \E k \in 0..MaxViews :
         \E sizes \in [1..k -> 0..MaxParams] :
            /\ TotalParams(sizes, k) <= MaxParams
            /\ \E tabs \in [1..k -> Tabs] :
                 \E all \in [1..TotalParams(sizes, k) -> FlatDescriptors] :
                    views = [i \in 1..k |->
                               View(tabs[i],
                                    SubSeq(all, TotalParams(sizes, i - 1) + 1,
                                           TotalParams(sizes, i)))]
    /\ flattened = <<>>
    /\ origin = <<>>
    /\ phase = "input"
    /\ descriptor = NoDescriptor /\ parent = "none" /\ mapped = NoParameter
    /\ res = NoResult /\ last_access = "None" /\ raised = "none" /\ returned = <<>>
    /\ data = NoData /\ new_params = <<>>

FetchParameters ==
    /\ phase = "input"
    /\ flattened' = Flatten(views).flattened
    /\ origin' = Flatten(views).origin
    /\ phase' = "output"
    /\ UNCHANGED <<views, descriptor, parent, mapped, res, last_access, raised,
                   returned, data, new_params>>
    /\ UNCHANGED reqVars

SpecFlat == InitFlat /\ [][FetchParameters]_vars

\* fetch_value, from line 152 on, on any object __request may have returned.
InitValue ==
    /\ RequestIdle
    /\ res \in Results
    /\ last_access \in {"None", "t0"}
    /\ raised = "none"
    /\ returned = <<>>
    /\ phase = "input"
    /\ views = <<>> /\ flattened = <<>> /\ origin = <<>>
    /\ descriptor = NoDescriptor /\ parent = "none" /\ mapped = NoParameter
    /\ data = NoData /\ new_params = <<>>

\* lines 154-160: line 159 stores lastAccess before line 160 reads values.
FetchValue ==
    /\ phase = "input"
    /\ raised' = RaisedOn(res)
    /\ last_access' = LastAccessAfter(res, last_access)
    /\ returned' = IF RaisedOn(res) = "none" THEN ValuesOf(res) ELSE <<>>
    /\ phase' = "output"
    /\ UNCHANGED <<views, flattened, origin, descriptor, parent, mapped, res,
                   data, new_params>>
    /\ UNCHANGED reqVars

SpecValue == InitValue /\ [][FetchValue]_vars

\* fetch_value called again and again on one client, one call at a time:
\* the payload is built (line 147 reads self.last_access), __request returns
\* any object or raises, and lines 154-160 run on what it returned.
InitValues ==
    /\ RequestIdle
    /\ res \in Results
    /\ last_access = "None"
    /\ data = [session_id |-> NoSession, last_access |-> "None"]
    /\ raised = "none"
    /\ returned = <<>>
    /\ phase = "input"
    /\ views = <<>> /\ flattened = <<>> /\ origin = <<>>
    /\ descriptor = NoDescriptor /\ parent = "none" /\ mapped = NoParameter
    /\ new_params = <<>>

\* line 149: the awaited __request raises, and so does fetch_value.
RequestRaises ==
    /\ phase = "input"
    /\ raised' = "RequestError"
    /\ returned' = <<>>
    /\ phase' = "output"
    /\ UNCHANGED <<views, flattened, origin, descriptor, parent, mapped, res,
                   last_access, data, new_params>>
    /\ UNCHANGED reqVars

\* lines 139-149 of the next call.
FetchValueAgain ==
    /\ phase = "output"
    /\ data' = [session_id |-> session_id, last_access |-> last_access]
    /\ res' \in Results
    /\ raised' = "none"
    /\ returned' = <<>>
    /\ phase' = "input"
    /\ UNCHANGED <<views, flattened, origin, descriptor, parent, mapped,
                   last_access, new_params>>
    /\ UNCHANGED reqVars

NextValues == FetchValue \/ RequestRaises \/ FetchValueAgain

SpecValues == InitValues /\ [][NextValues]_vars

\* ---------------------------------------------------------------- claims

\* The names of the calls a request issued, in the order of issue.
Calls(lg) == [i \in 1..Len(lg) |-> lg[i].ev]
IsAuthCall(e) == e \in {"token", "session"}
\* The positions of the client.request calls of a request.
HttpAt(lg) == {i \in 1..Len(lg) : lg[i].ev = "http"}
Quiescent == \A p \in Procs : pc[p] \in {"idle", "done"}

\* C1: a request that found the tokens null or expired issued exactly one
\* token fetch followed by one create_session before its first
\* client.request; a request that found valid tokens issued neither.
C1_AuthBeforeFirstCall ==
    \A p \in Procs :
        HttpAt(log[p]) # {} =>
            LET before == SubSeq(Calls(log[p]), 1, Least(HttpAt(log[p])) - 1)
            IN  SelectSeq(before, IsAuthCall) =
                    IF startTokens[p] \in {"none", "expired"}
                    THEN <<"token", "session">> ELSE <<>>

C1_Witness ==
    \E p \in Procs : startTokens[p] = "expired" /\ HttpAt(log[p]) # {}

\* C2, as claimed: any two update_session calls are at least 60 seconds
\* apart, and none is issued before the stored next-refresh time.
C2_Original ==
    /\ \A i, j \in 1..Len(keepalives) :
           i < j => keepalives[j].at - keepalives[i].at >= 60
    /\ \A i \in 1..Len(keepalives) :
           keepalives[i].refresh = NoTime \/ keepalives[i].refresh <= keepalives[i].at

\* C2, amended: an update_session call is at least 60 seconds after every
\* earlier update_session call that returned (one that raised is repeated by
\* the next request), and none is issued while the clock is before the
\* stored next-refresh time.
C2_KeepaliveThrottle ==
    /\ \A i, j \in 1..Len(keepalives) :
           (i < j /\ keepalives[i].result = "returned")
               => keepalives[j].at - keepalives[i].at >= 60
    /\ \A i \in 1..Len(keepalives) :
           keepalives[i].refresh = NoTime \/ keepalives[i].refresh <= keepalives[i].at

C2_Witness ==
    /\ Len(keepalives) >= 2
    /\ keepalives[1].result = "returned"
    /\ keepalives[2].refresh # NoTime

C4_Original ==
    \A p \in Procs :
        (pc[p] = "done" /\ resp1[p].status = 401 /\ resp2[p].status = 401)
            => /\ outcome[p] = [kind |-> "raise", val |-> "FetchFailed"]
               /\ last_failed = TRUE

\* C5: a request issues at most two client.request calls; it issues the
\* second only after a first response of status 401 or 500, and between the
\* two exactly one token fetch followed by one create_session, also when the
\* stored token is not expired.
C5_OneRetry ==
    \A p \in Procs :
        LET at == HttpAt(log[p])
        IN  /\ Cardinality(at) <= 2
            /\ Cardinality(at) = 2 =>
                 /\ resp1[p].status \in {401, 500}
                 /\ SelectSeq(SubSeq(Calls(log[p]), Least(at) + 1, Greatest(at) - 1),
                              IsAuthCall) = <<"token", "session">>

C5_Witness ==
    \E p \in Procs :
        /\ Cardinality(HttpAt(log[p])) = 2
        /\ resp1[p].status = 500
        /\ ~resp1[p].tokenExpired

\* C6, as claimed: while no request is running, the stored tokens and the
\* stored session_id are of the same authentication cycle: both are null,
\* or the session was opened with the stored access token.
C6_Original ==
    Quiescent =>
        IF tokens.present
        THEN session_id # NoSession /\ sessionTok = tokens.access_token
        ELSE session_id = NoSession

\* The positions of a sequence.
Pos(s) == 1..Len(s)

\* C7, as claimed: the flattened list holds no two parameters of one value
\* id and no two parameters of one name.
C7_Original ==
    phase = "output" =>
        \A i, j \in Pos(flattened) :
            i # j => /\ flattened[i].value_id # flattened[j].value_id
                     /\ flattened[i].name # flattened[j].name

\* C7, amended: the flattened list holds no two parameters of one value id,
\* and no two parameters of one name that are of the same view (the names
\* seen are forgotten at every view, the value ids are not).
C7_DistinctIdsAndNamesPerView ==
    phase = "output" =>
        \A i, j \in Pos(flattened) :
            i # j => /\ flattened[i].value_id # flattened[j].value_id
                     /\ origin[i] = origin[j] => flattened[i].name # flattened[j].name

\* A view that repeats a name under another value id, of which the first
\* parameter was appended and the second was not.
C7_Witness ==
    /\ phase = "output"
    /\ \E k \in Pos(views) :
         \E a, b \in Pos(views[k].parameter_descriptors) :
            LET da == views[k].parameter_descriptors[a]
                db == views[k].parameter_descriptors[b]
            IN  /\ a < b
                /\ da.name = db.name
                /\ da.value_id # db.value_id
                /\ \E m \in Pos(flattened) :
                      origin[m] = k /\ flattened[m].value_id = da.value_id
                /\ \A m \in Pos(flattened) : flattened[m].value_id # db.value_id

\* Whether the parameter mapped from the i-th descriptor of the k-th view is
\* in the flattened list.
Holds(k, i) ==
    \E m \in Pos(flattened) :
        /\ origin[m] = k
        /\ flattened[m] =
               map_parameter(views[k].parameter_descriptors[i], views[k].tab_name)

\* The descriptor at i in view k is the first of its value id there.
FirstOfItsId(k, i) ==
    \A h \in 1..(i - 1) :
        views[k].parameter_descriptors[h].value_id #
            views[k].parameter_descriptors[i].value_id

\* The descriptor at i in view k is the first of its name there.
FirstOfItsName(k, i) ==
    \A h \in 1..(i - 1) :
        views[k].parameter_descriptors[h].name #
            views[k].parameter_descriptors[i].name

\* A parameter of view 1 and one of view 2 with one value id and two names.
Collide(i, j) ==
    /\ views[1].parameter_descriptors[i].value_id =
           views[2].parameter_descriptors[j].value_id
    /\ views[1].parameter_descriptors[i].name #
           views[2].parameter_descriptors[j].name

\* C8, as claimed: of two views A, B that hold a parameter of the same value
\* id under different names, the flattened list holds B's and not A's (B's
\* parameter of a value id being the first of that value id in B).
C8_Original ==
    (phase = "output" /\ Len(views) = 2) =>
        \A i \in Pos(views[1].parameter_descriptors) :
            \A j \in Pos(views[2].parameter_descriptors) :
                (Collide(i, j) /\ FirstOfItsId(2, j)) => Holds(2, j) /\ ~Holds(1, i)

\* C8, amended: the same, provided B's parameter follows, within B, no
\* parameter of the same name either.
C8_LaterViewWins ==
    (phase = "output" /\ Len(views) = 2) =>
        \A i \in Pos(views[1].parameter_descriptors) :
            \A j \in Pos(views[2].parameter_descriptors) :
                (Collide(i, j) /\ FirstOfItsId(2, j) /\ FirstOfItsName(2, j))
                    => Holds(2, j) /\ ~Holds(1, i)

C8_Witness ==
    /\ phase = "output"
    /\ Len(views) = 2
    /\ \E i \in Pos(views[1].parameter_descriptors) :
         \E j \in Pos(views[2].parameter_descriptors) :
            /\ Collide(i, j)
            /\ FirstOfItsId(2, j)
            /\ FirstOfItsName(2, j)
            /\ j > 1
            /\ Holds(2, j)

\* C9, as claimed: a response whose errorMessage is the read-parameter
\* sentinel raises ParameterReadError; a response with an error code or an
\* error type and another or no error message raises FetchFailed.
C9_Original ==
    phase = "output" =>
        /\ (res.has_errorMessage /\ res.errorMessage = "ERROR_READ_PARAMETER")
               => raised = "ParameterReadError"
        /\ ((res.has_errorCode \/ res.has_errorType)
              /\ ~(res.has_errorMessage /\ res.errorMessage = "ERROR_READ_PARAMETER"))
               => raised = "FetchFailed"

\* C9, amended: a response with an error code or an error type raises
\* ParameterReadError when its errorMessage is the read-parameter sentinel
\* and FetchFailed when it has another or no error message.
C9_ErrorClassification ==
    (phase = "output" /\ (res.has_errorCode \/ res.has_errorType)) =>
        IF res.has_errorMessage /\ res.errorMessage = "ERROR_READ_PARAMETER"
        THEN raised = "ParameterReadError"
        ELSE raised = "FetchFailed"

C9_Witness ==
    /\ phase = "output"
    /\ res.has_errorType
    /\ ~res.has_errorCode
    /\ res.has_errorMessage
    /\ res.errorMessage = "ERROR_READ_PARAMETER"
    /\ raised = "ParameterReadError"

\* The variant the priority rule gives a descriptor.
KindByRule(d) ==
    IF d.has_unit
    THEN CASE d.unit = "degC" -> "Temperature"
           [] d.unit = "bar" -> "Pressure"
           [] d.unit = "%" -> "Percentage"
           [] d.unit = "Std" -> "Hours"
           [] OTHER -> "Simple"
    ELSE IF d.has_list_items THEN "ListItem" ELSE "Simple"

\* C10: the mapper gives every descriptor the variant of the priority rule
\* (unit first, then list items, else Simple), with the descriptor's value
\* id, name and parameter id and the given parent, and a ListItem-backed
\* parameter the (value, display text) pairs in the descriptor's order.
C10_MapperPriority ==
    phase = "output" =>
        /\ mapped.kind = KindByRule(descriptor)
        /\ mapped.value_id = descriptor.value_id
        /\ mapped.name = descriptor.name
        /\ mapped.parameter_id = descriptor.parameter_id
        /\ mapped.parent = parent
        /\ mapped.kind = "ListItem" =>
             /\ Len(mapped.items) = Len(descriptor.list_items)
             /\ \A i \in Pos(mapped.items) :
                    /\ mapped.items[i].value = descriptor.list_items[i].value
                    /\ mapped.items[i].name = descriptor.list_items[i].display_text

\* A descriptor with an unknown unit and list items, mapped to Simple.
C10_Witness ==
    /\ phase = "output"
    /\ descriptor.has_unit
    /\ descriptor.unit = "kW"
    /\ descriptor.has_list_items
    /\ Len(descriptor.list_items) = 2
    /\ mapped.kind = "Simple"

\* ---- C11

\* The entries of the schema block of view v that carry a unit and have the
\* value id of descriptor d.
UnitCarrying(v, d) ==
    {j \in Pos(v.svg_parameters) :
        v.svg_parameters[j].has_unit /\ v.svg_parameters[j].value_id = d.value_id}

\* C11, as claimed: in a view with the schema block, a descriptor whose
\* value id is that of an entry of the block carrying the unit "bar" is
\* mapped to a Pressure, and a descriptor whose value id is that of no
\* unit-carrying entry is mapped as without the block.
C11_Original ==
    phase = "output" =>
        LET v == views[1]
        IN  \A i \in Pos(v.parameter_descriptors) :
              LET d == v.parameter_descriptors[i]
              IN  /\ (v.has_svg /\ \E j \in UnitCarrying(v, d) :
                                       v.svg_parameters[j].unit = BAR)
                        => new_params[i] =
                             Pressure(d.value_id, d.name, v.tab_name, d.parameter_id)
                  /\ (v.has_svg /\ UnitCarrying(v, d) = {})
                        => new_params[i] = map_parameter(d, v.tab_name)

\* C11, amended: in a view with the schema block, a descriptor is mapped to
\* a Pressure, whether or not it has a unit field of its own, when the last
\* of the unit-carrying entries with its value id carries the unit "bar"; a
\* descriptor whose value id is that of no unit-carrying entry is mapped as
\* without the block.
C11_SchemaUnitLookup ==
    phase = "output" =>
        LET v == views[1]
        IN  \A i \in Pos(v.parameter_descriptors) :
              LET d == v.parameter_descriptors[i]
                  m == UnitCarrying(v, d)
              IN  /\ (v.has_svg /\ m # {}
                         /\ \E j \in m : /\ \A k \in m : k <= j
                                         /\ v.svg_parameters[j].unit = BAR)
                        => new_params[i] =
                             Pressure(d.value_id, d.name, v.tab_name, d.parameter_id)
                  /\ (v.has_svg /\ m = {})
                        => new_params[i] = map_parameter(d, v.tab_name)

C11_Witness ==
    /\ phase = "output"
    /\ views[1].has_svg
    /\ ~views[1].parameter_descriptors[1].has_unit
    /\ \E j \in UnitCarrying(views[1], views[1].parameter_descriptors[1]) :
          views[1].svg_parameters[j].unit = BAR
    /\ new_params[1].kind = "Pressure"

\* ---- C12

\* The descriptors of a list have pairwise distinct value ids and pairwise
\* distinct names.
Unique(ds) ==
    \A i, j \in Pos(ds) :
        i # j => ds[i].value_id # ds[j].value_id /\ ds[i].name # ds[j].name

\* C12: fetch_parameters returns the empty list for an empty list of views,
\* and for a single view of N descriptors with pairwise distinct value ids
\* and pairwise distinct names it returns N parameters, the i-th being the
\* mapping of the i-th descriptor.
C12_FlattenSingleView ==
    phase = "output" =>
        /\ views = <<>> => flattened = <<>>
        /\ (Len(views) = 1 /\ Unique(views[1].parameter_descriptors)) =>
              LET ds == views[1].parameter_descriptors
              IN  /\ Len(flattened) = Len(ds)
                  /\ \A i \in Pos(ds) :
                        flattened[i] = map_parameter(ds[i], views[1].tab_name)

C12_Witness ==
    /\ phase = "output"
    /\ Len(views) = 1
    /\ Len(views[1].parameter_descriptors) = 2
    /\ Unique(views[1].parameter_descriptors)
    /\ Len(flattened) = 2

\* ---- C13

\* The caller passed no Authorization header of its own.
NoCallerAuthorization(kw) == kw.none \/ Get(kw.dict, "Authorization") = Absent

\* C13, as claimed: when the caller passed no Authorization header, the
\* second client.request of a request carries the bearer authorization of
\* the access token the forced re-authentication obtained (the one
\* create_session was called with just before).
C13_Original ==
    \A p \in Procs :
        LET at == HttpAt(log[p])
        IN  (Cardinality(at) = 2 /\ NoCallerAuthorization(kwargs[p])) =>
                /\ log[p][Greatest(at) - 1].ev = "session"
                /\ log[p][Greatest(at)].tok = log[p][Greatest(at) - 1].tok

\* ---- C14

\* C14: a request that raised the authentication error issued no call after
\* the token fetch or create_session that failed: the failed call is the
\* last one of the request, whether of the first authentication or of the
\* forced one.  In every request a token fetch that is followed by a call
\* at all is followed by the create_session of its result, and a
\* create_session by the keepalive or the client.request: neither is ever
\* repeated after a failure.
C14_AuthFailurePropagates ==
    \A p \in Procs :
        /\ outcome[p] = Raise("AuthError") =>
              /\ pc[p] = "done"
              /\ log[p] # <<>>
              /\ IsAuthCall(log[p][Len(log[p])].ev)
        /\ \A i \in 1..(Len(log[p]) - 1) :
              /\ log[p][i].ev = "token" => log[p][i + 1].ev = "session"
              /\ log[p][i].ev = "session" => log[p][i + 1].ev \in {"keepalive", "http"}

C14_Witness ==
    \E p \in Procs :
        /\ outcome[p] = Raise("AuthError")
        /\ resp1[p].status = SERVER_ERROR
        /\ log[p][Len(log[p])].ev = "session"

\* ---- C15

\* The request of coroutine p has its authentication behind it: it issued a
\* call after its create_session.
Authenticated(p) ==
    /\ Len(log[p]) >= 3
    /\ log[p][1].ev = "token"
    /\ log[p][2].ev = "session"

\* C15: with two requests interleaved on one client, a request that found
\* the tokens null or expired on line 57 performs its own token fetch and
\* its own create_session whatever the other request does meanwhile: no
\* lock makes it wait for, or share, the other's authentication.  The
\* witness is the state the claim says is reachable: both requests found
\* the tokens null and two sessions were opened.
C15_NoMutualExclusion ==
    \A p \in Procs :
        startTokens[p] \in {"none", "expired"} =>
            /\ log[p] # <<>>
            /\ log[p][1].ev = "token"
            /\ Len(log[p]) >= 2 => log[p][2].ev = "session"

C15_Witness ==
    /\ \A p \in Procs : startTokens[p] = "none" /\ Authenticated(p)
    /\ nTok = 2
    /\ nSess = 2

\* ---- C16

\* The positions of the update_session calls of a request.
KeepaliveAt(lg) == {i \in 1..Len(lg) : lg[i].ev = "keepalive"}

\* C16: the steps of a request are ordered.  Its update_session call, if
\* any, comes after the authentication the check of line 57 asked for
\* (token fetch and create_session, both returned) and before every
\* client.request; while it is awaited no client.request has been issued;
\* and it is made with the access token and the session id the client
\* stores at that moment, which are those of the authentication just made
\* when there was one.
C16_StepOrder ==
    \A p \in Procs :
        LET lg == log[p]
            k == KeepaliveAt(lg)
        IN  /\ Cardinality(k) <= 1
            /\ \A i \in k :
                  /\ \A h \in HttpAt(lg) : i < h
                  /\ SubSeq(Calls(lg), 1, i - 1) =
                        IF startTokens[p] \in {"none", "expired"}
                        THEN <<"token", "session">> ELSE <<>>
                  /\ lg[i].tok # Absent
                  /\ i > 1 => lg[i].tok = lg[i - 1].tok
            /\ pc[p] = "update_session" =>
                  /\ k = {Len(lg)}
                  /\ tokens.present
                  /\ lg[Len(lg)].tok = tokens.access_token
                  /\ lg[Len(lg)].sid = session_id

C16_Witness ==
    \E p \in Procs :
        /\ startTokens[p] = "expired"
        /\ Len(log[p]) >= 4
        /\ SubSeq(Calls(log[p]), 1, 4) = <<"token", "session", "keepalive", "http">>
        /\ log[p][3].tok = tokens.access_token
        /\ log[p][3].sid = session_id

\* ---- C17

\* The first response of the request of coroutine p has a status other than
\* 401 and 500, and the request has ended.
EndedOnFirstResponse(p) ==
    /\ pc[p] = "done"
    /\ resp1[p].status \in Statuses \ {UNAUTHORIZED, SERVER_ERROR}

\* C17, as claimed: a request whose first response has a status other than
\* 401 and 500 issues one client.request and no authentication after it,
\* returns the parsed JSON body of that response, and leaves last_failed
\* false.
C17_Original ==
    \A p \in Procs :
        EndedOnFirstResponse(p) =>
            /\ Cardinality(HttpAt(log[p])) = 1
            /\ \A i \in 1..Len(log[p]) :
                  i > Least(HttpAt(log[p])) => ~IsAuthCall(log[p][i].ev)
            /\ outcome[p].kind = "return"
            /\ IsJson(resp1[p].body)
            /\ outcome[p].val = Json(resp1[p].body)
            /\ last_failed = FALSE

\* C17, amended: a request whose first response has a status other than
\* 401 and 500 issues one client.request and no authentication after it,
\* and leaves last_failed false; it returns the parsed JSON body of that
\* response when the body is JSON, and raises the error of the JSON decoder
\* when it is not.
C17_NoRetryOnOtherStatus ==
    \A p \in Procs :
        EndedOnFirstResponse(p) =>
            /\ Cardinality(HttpAt(log[p])) = 1
            /\ \A i \in 1..Len(log[p]) :
                  i > Least(HttpAt(log[p])) => ~IsAuthCall(log[p][i].ev)
            /\ last_failed = FALSE
            /\ IF IsJson(resp1[p].body)
               THEN outcome[p] = [kind |-> "return", val |-> Json(resp1[p].body)]
               ELSE outcome[p] = [kind |-> "raise", val |-> "JSONDecodeError"]

C17_Witness ==
    \E p \in Procs :
        /\ EndedOnFirstResponse(p)
        /\ resp1[p].status = 404
        /\ resp1[p].body = "json_b"
        /\ outcome[p].val = "doc_b"

\* ---- C18

\* C18, as claimed: the session id in the body of every client.request of
\* an operation that sends it is the session id the client stores when that
\* call is issued, also when the request authenticated before the call or
\* re-authenticated before the retry.
C18_Original ==
    \A p \in Procs :
        \A i \in HttpAt(log[p]) : data.session_id = log[p][i].sid

\* ---- C19

\* C19, as claimed: fetch_value changes self.last_access only when it
\* returns: after a call that raised, last_access is what it was when the
\* call built its payload; after a call that returned, it is the lastAccess
\* of the response; and the payload of the next call carries it.
C19_Original ==
    /\ phase = "output" =>
          IF raised = "none"
          THEN last_access = res.lastAccess
          ELSE last_access = data.last_access
    /\ phase = "input" => data.last_access = last_access

\* C19, amended: after a call that raised ParameterReadError or
\* FetchFailed, or in which __request raised, last_access is what it was
\* when the call built its payload; after a call whose response had no
\* error key and a lastAccess, it is that lastAccess, whether the call
\* returned or raised on the missing values; and the payload of the next
\* call carries it.
C19_LastAccessFrame ==
    /\ phase = "output" =>
          /\ raised \in {"ParameterReadError", "FetchFailed", "RequestError"}
                => last_access = data.last_access
          /\ raised = "none" => last_access = res.lastAccess
          /\ (~res.has_errorCode /\ ~res.has_errorType /\ res.has_lastAccess
                /\ raised # "RequestError")
                => last_access = res.lastAccess
    /\ phase = "input" => data.last_access = last_access

C19_Witness ==
    /\ phase = "output"
    /\ raised = "FetchFailed"
    /\ res.has_lastAccess
    /\ res.lastAccess = "t2"
    /\ data.last_access = "t1"
    /\ last_access = "t1"

====
